---- MODULE Spec2Model ----
(***************************************************************************)
(* The convert -> evaluate -> improve control loops of the repository:     *)
(*   - the PySpark graph of src/agents/sparky/PySparkAgent.py              *)
(*     (nodes convert, evaluate, improve, export);                         *)
(*   - SPConverter.run of src/agents/element/utils.py, with the recursive  *)
(*     resolution of internal stored procedures against the procedure      *)
(*     store (metadata/stored_procedure.json).                             *)
(* The language model is the environment: what it returns is chosen with   *)
(* \E from small sets.  A behaviour is one invocation of one of the two    *)
(* entry points; the other machine stays idle.                             *)
(* Further specifications over the same variables study one part each:     *)
(* concurrent save_code calls (SaveSpec), the catalogue lookups            *)
(* (LookupSpec), the template of the conversion chain (PromptSpec),        *)
(* export_code on an output directory (ExportSpec), runs with a missing    *)
(* source file (MissingSourceSpec), runs in every packaging environment    *)
(* and project directory (DockerSpec), and the helper functions            *)
(* json_to_dict (ParseSpec) and chunked (ChunkSpec).                       *)
(***************************************************************************)
EXTENDS Integers, Sequences, FiniteSets, TLC

VARIABLES
    \* ---- PySpark graph ----
    node,          \* the node about to run: "convert", "evaluate", "improve",
                   \* "export", "END", "raised" (a node raised), "idle"
    state,         \* the PySparkState dict: a function from the keys present
    gErr,          \* the exception that ended the graph run, or "none"
    gTrace,        \* history: the nodes executed so far, as phases
    gFirst,        \* history: [files, score] of the first conversion/evaluation
    gExported,     \* history: the sequence of file sets written by export
    gCalls,        \* history: the improvement-model calls of the last improve
    \* ---- SPConverter ----
    stack,         \* the nested SPConverter.run activations, top-level first
    store,         \* metadata/stored_procedure.json: name -> ConversionResult
    storeFile,     \* whether metadata/stored_procedure.json exists
    rel,           \* the dependency relation the identification step reports
    sources,       \* the procedures that have a file in ../source/StoredProcedure
    docker,        \* the packaging environment of the runs: whether pom.xml
                   \* gets written, what the first and the second `docker
                   \* build` and what `docker run` do
    dockerfiles,   \* the Dockerfile in each procedure's project directory
                   \* out/SP/<name>: "none" or the template it holds
    recursion,     \* SPConverter(recursion=...) of the top-level run
    iterations,    \* SPConverter(iterations=...) of the top-level run
    retries,       \* depth of the convert_sp_v2 self-recursion now on the stack
    raised,        \* the exception that left the top-level run, or "none"
    finished,      \* history: names whose recursive conversion has returned
    events,        \* history: flags of resolver events
    \* ---- concurrent save_code calls on the procedure store ----
    savers,        \* the processes inside save_code: their position and locals
    storeText,     \* the text of the store file: "json" (it parses to store),
                   \* "empty" (opened for writing, nothing written yet; store
                   \* keeps what was there) or "garbled"
    written,       \* history: the processes in the order of their write-backs
    \* ---- catalogue lookups (find_from_json) ----
    category,      \* "entities", "functions" or "triggers"; "procedures"
    catalogue,     \* the parsed catalogue file: [shape, items]
    wanted,        \* the identifiers to resolve, in DependencySet order
    pos,           \* index of the next identifier to resolve
    resolved,      \* the resolved text so far: a sequence of blocks
    found,         \* history: the result of each lookup, in order
    \* ---- the conversion chain's template (get_conversion_chain) ----
    target_framework,  \* the argument: [none, text]
    system_prompt,     \* the template selected, "unset" before the call
    \* ---- export_code on a unit's output directory ----
    converter,     \* the exporting SPConverter's fields, and where it is
    outdir,        \* ../out/SP/<name>: the metadata files it holds
    \* ---- calls of the helper functions json_to_dict and chunked ----
    call,          \* the function called and its arguments
    returned       \* what the call returned or raised; raised is "unset"
                   \* before the call and "none" after one that returned

gvars == <<node, state, gErr, gTrace, gFirst, gExported, gCalls>>
svars == <<stack, store, storeFile, rel, sources, docker, dockerfiles, recursion, iterations,
           retries, raised, finished, events>>
runvars == <<stack, rel, sources, docker, dockerfiles, recursion, iterations, retries, raised,
             finished, events>>
rvars == <<savers, storeText, written>>
lvars == <<category, catalogue, wanted, pos, resolved, found>>
pvars == <<target_framework, system_prompt>>
xvars == <<converter, outdir>>
fvars == <<call, returned>>
vars == <<node, state, gErr, gTrace, gFirst, gExported, gCalls,
          stack, store, storeFile, rel, sources, docker, dockerfiles, recursion, iterations,
          retries, raised, finished, events,
          savers, storeText, written,
          category, catalogue, wanted, pos, resolved, found,
          target_framework, system_prompt, converter, outdir,
          call, returned>>

----------------------------------------------------------------------------
(* Bounds of the model *)

\* largest max_iters / iterations budget tried
MaxIters == 2
\* longest improvement list the evaluator returns
MaxImps == 3
\* number of distinct non-empty conversion results the model can return
MaxCode == 1
\* longest internal_stored_procedures list the identification step returns
MaxDeps == 2
\* frames the interpreter stack holds before RecursionError (CPython: 1000),
\* counted in nested SPConverter.run activations plus nested convert_sp_v2 calls
RecursionLimit == 3
\* processes that run save_code on the same store file at the same time
MaxSavers == 2
\* most records in a catalogue file
MaxRecs == 2
\* most identifiers of one category in a DependencySet
MaxWanted == 2
\* most improvement-model calls one execution of spark_improve makes
MaxBatches == 3
\* most characters of a target name between its leading and trailing blanks
MaxWord == 3
\* most blanks before, and after, a target name
MaxPad == 1
\* longest response text handed to json_to_dict, in lexical units
MaxText == 6
\* longest list handed to chunked
MaxItems == 5
\* largest chunk size handed to chunked
MaxChunk == 3

(* Program constants *)

\* state.get("target_score", 90.0)
DefaultTarget == 90
\* state.get("max_iters", 3)
DefaultMaxIters == 3
\* state.get("score", 0.0)
DefaultScore == 0
\* state.get("iteration", 0)
DefaultIteration == 0
\* range_value = 7 in spark_improve
RangeValue == 7
\* if self.evaluation.score < 90
RunTarget == 90
\* chunked(self.evaluation.improvements, 2)
ChunkSize == 2

\* scores the evaluator returns: EvaluationOut.score is an unconstrained float,
\* so besides values around both targets (the boundary included) the model can
\* answer with a number below 0 or above 100
Scores == {-5, 40, 50, 89, 90, 101}
\* target scores a caller passes
TargetScores == {50, 90}
\* conversion results: 0 is the empty result ({} or []), the others are file sets
EmptyCode == 0
Codes == 0..MaxCode
Files == 1..MaxCode
\* lengths of the improvement lists the evaluator returns
ImpCounts == {0, MaxImps}
\* lengths of the improvement lists the graph's evaluator returns: none, one
\* full batch, and the shortest list that needs MaxBatches calls
GraphImpCounts == {0, RangeValue, (MaxBatches - 1) * RangeValue + 1}

----------------------------------------------------------------------------
(* The PySpark graph                                                        *)

\* dict.get(key, default)
Get(d, key, default) == IF key \in DOMAIN d THEN d[key] ELSE default

\* the update a node returns, merged into the graph state
Merge(update, d) == update @@ d

\* ceil(n / b): the number of iterations of range(0, n, b)
CeilDiv(n, b) == (n + b - 1) \div b

\* the list of n improvement suggestions, each identified by its position
Suggestions(n) == [j \in 1..n |-> j]

\* items[lo:hi] for 0 <= lo <= hi
PySlice(items, lo, hi) ==
    IF lo >= Len(items) THEN << >>
    ELSE SubSeq(items, lo + 1, IF hi < Len(items) THEN hi ELSE Len(items))

\* an improve loop that hands every call the files it started with
ImproveCallsUnchained(improvements, converted_files, outs) ==
    [b \in 1..CeilDiv(Len(improvements), RangeValue) |->
        [improvements   |-> PySlice(improvements, (b - 1) * RangeValue,
                                    (b - 1) * RangeValue + RangeValue),
         converted_code |-> converted_files,
         result         |-> outs[b]]]

\* spark_improve: the loop `for i in range(0, len(improvements), range_value)`;
\* call b gets improvements[i:i+range_value] and the converted_files left by
\* call b - 1 (`converted_files = result.files`); outs[b] is what it returns
ImproveCalls(improvements, converted_files, outs) ==
    [b \in 1..CeilDiv(Len(improvements), RangeValue) |->
        [improvements   |-> PySlice(improvements, (b - 1) * RangeValue,
                                    (b - 1) * RangeValue + RangeValue),
         converted_code |-> IF b = 1 THEN converted_files
                            ELSE [shape |-> "list", files |-> outs[b - 1]],
         result         |-> outs[b]]]

\* a router that sends a score equal to the target to improve
route_after_evaluate_strict(st) ==
    LET target    == Get(st, "target_score", DefaultTarget)
        max_iters == Get(st, "max_iters", DefaultMaxIters)
        score     == Get(st, "score", DefaultScore)
        iteration == Get(st, "iteration", DefaultIteration)
    IN  IF score > target THEN "export"
        ELSE IF iteration >= max_iters THEN "export"
        ELSE "improve"

\* a router that compares the counter with `>`: one more improve pass
route_after_evaluate_late(st) ==
    LET target    == Get(st, "target_score", DefaultTarget)
        max_iters == Get(st, "max_iters", DefaultMaxIters)
        score     == Get(st, "score", DefaultScore)
        iteration == Get(st, "iteration", DefaultIteration)
    IN  IF score >= target THEN "export"
        ELSE IF iteration > max_iters THEN "export"
        ELSE "improve"

\* _route_after_evaluate: the conditional edge taken after the evaluate node
route_after_evaluate(st) ==
    LET target    == Get(st, "target_score", DefaultTarget)
        max_iters == Get(st, "max_iters", DefaultMaxIters)
        score     == Get(st, "score", DefaultScore)
        iteration == Get(st, "iteration", DefaultIteration)
    IN  IF score >= target THEN "export"
        ELSE IF iteration >= max_iters THEN "export"
        ELSE "improve"

\* add_edge("convert", "evaluate")
AfterConvert == "evaluate"
\* an improve node wired straight to export
AfterImproveToExport == "export"
\* add_edge("improve", "evaluate")
AfterImprove == "evaluate"
\* add_edge("export", END)
AfterExport == "END"

\* the initial_state handed to pyspark_graph.invoke: run_pyspark_conversion sets
\* target_score, max_iters and iteration = 0; PySparkState is total=False, so a
\* direct caller of the compiled graph may leave any of them out
InitialStates ==
    { [k \in present |->
          CASE k = "target_score" -> t
            [] k = "max_iters"    -> m
            [] k = "iteration"    -> 0] :
        present \in SUBSET {"target_score", "max_iters", "iteration"},
        t \in TargetScores, m \in 0..MaxIters }

GraphIdle ==
    /\ node = "idle"
    /\ state = << >>
    /\ gErr = "none"
    /\ gTrace = << >>
    /\ gFirst = [files |-> 0, score |-> -1]
    /\ gExported = << >>
    /\ gCalls = << >>

GraphInit ==
    /\ node = "convert"
    /\ state \in InitialStates
    /\ gErr = "none"
    /\ gTrace = << >>
    /\ gFirst = [files |-> 0, score |-> -1]
    /\ gExported = << >>
    /\ gCalls = << >>

\* a node raised: the exception leaves pyspark_graph.invoke, END is not reached
GraphRaise(err) ==
    /\ node' = "raised"
    /\ gErr' = err

\* spark_convert: the structured model output (an OutFiles object) is stored as is
spark_convert ==
    /\ node = "convert"
    /\ \E f \in Files :
          /\ state' = Merge("converted_files" :> [shape |-> "OutFiles", files |-> f], state)
          /\ gFirst' = [gFirst EXCEPT !.files = f]
    /\ node' = AfterConvert
    /\ gTrace' = Append(gTrace, "CONVERT")
    /\ UNCHANGED <<gErr, gExported, gCalls>>
    /\ UNCHANGED <<svars, rvars, lvars, pvars, xvars, fvars>>

\* evaluate, followed by the conditional edge _route_after_evaluate
evaluate ==
    /\ node = "evaluate"
    /\ \E s \in Scores, n \in GraphImpCounts :
          /\ state' = Merge(("improvements" :> n) @@ ("score" :> s), state)
          /\ gFirst' = IF gFirst.score = -1 THEN [gFirst EXCEPT !.score = s] ELSE gFirst
    /\ node' = route_after_evaluate(state')
    /\ gTrace' = Append(gTrace, "EVALUATE")
    /\ UNCHANGED <<gErr, gExported, gCalls>>
    /\ UNCHANGED <<svars, rvars, lvars, pvars, xvars, fvars>>

\* spark_improve: one model call per batch of RangeValue suggestions; `result` is
\* bound only inside the loop, so with no suggestion `result.files` raises; the
\* returned update reads state["iteration"]
spark_improve ==
    /\ node = "improve"
    /\ gTrace' = Append(gTrace, "IMPROVE")
    /\ LET improvements == Suggestions(state["improvements"])
           n == CeilDiv(Len(improvements), RangeValue)
       IN  \E outs \in [1..n -> Files] :
             /\ gCalls' = ImproveCalls(improvements, state["converted_files"], outs)
             /\ IF n = 0
                THEN GraphRaise("UnboundLocalError") /\ UNCHANGED state
                ELSE IF "iteration" \notin DOMAIN state
                THEN GraphRaise("KeyError") /\ UNCHANGED state
                ELSE /\ state' = Merge(("converted_files" :>
                                           [shape |-> "list", files |-> gCalls'[n].result])
                                       @@ ("iteration" :> state["iteration"] + 1), state)
                     /\ node' = AfterImprove
                     /\ UNCHANGED gErr
    /\ UNCHANGED <<gFirst, gExported>>
    /\ UNCHANGED <<svars, rvars, lvars, pvars, xvars, fvars>>

\* spark_export: iterates over state["converted_files"] and reads file.filepath
\* of each item; iterating an OutFiles object yields (name, value) pairs, which
\* have no filepath
spark_export ==
    /\ node = "export"
    /\ gTrace' = Append(gTrace, "EXPORT")
    /\ IF state["converted_files"].shape = "list"
       THEN /\ gExported' = Append(gExported, state["converted_files"].files)
            /\ node' = AfterExport
            /\ UNCHANGED gErr
       ELSE /\ GraphRaise("AttributeError")
            /\ UNCHANGED gExported
    /\ UNCHANGED <<state, gFirst, gCalls>>
    /\ UNCHANGED <<svars, rvars, lvars, pvars, xvars, fvars>>

----------------------------------------------------------------------------
(* Strings, and the template of the conversion chain                        *)

\* a string is a sequence of characters, each a letter in upper or lower case
Cased(l) == {[letter |-> l, upper |-> u] : u \in BOOLEAN}
\* a comparison that leaves the case of the letters alone
Unchanged(str) == str
\* str.lower()
Lower(str) == [j \in 1..Len(str) |-> [str[j] EXCEPT !.upper = FALSE]]
\* the lists of at most n elements of S
ListsOf(S, n) == UNION { [1..k -> S] : k \in 0..n }

\* a whitespace character
Blank == [letter |-> " ", upper |-> FALSE]
\* a string of lower-case tokens
Str(tokens) == [j \in 1..Len(tokens) |-> [letter |-> tokens[j], upper |-> FALSE]]

\* a string used with its blanks
Unstripped(str) == str
\* str.strip(): the string without its leading and trailing whitespace
RECURSIVE Strip(_)
Strip(str) ==
    IF str = << >> THEN str
    ELSE IF Head(str) = Blank THEN Strip(Tail(str))
    ELSE IF str[Len(str)] = Blank THEN Strip(SubSeq(str, 1, Len(str) - 1))
    ELSE str

\* the templates of agents/element/PromptTemplate.py
SP_CONVERSION_SYS_PROMPT == "Java Springboot"
SP_CONVERSION_SYS_PROMPT_FLASK == "Python Flask"
SP_CONVERSION_SYS_PROMPT_FASTAPI == "Python FastAPI"

\* the argument None
None == [none |-> TRUE, text |-> << >>]

\* _resolve_system_prompt(target_framework)
resolve_system_prompt(tf) ==
    IF tf.none \/ tf.text = << >> THEN SP_CONVERSION_SYS_PROMPT
    ELSE LET key == Lower(Strip(tf.text))
         IN  IF key \in {Str(<< "java" >>), Str(<< "springboot" >>),
                         Str(<< "java", "/", "springboot" >>)}
             THEN SP_CONVERSION_SYS_PROMPT
             ELSE IF key \in {Str(<< "python", "/", "flask" >>), Str(<< "flask" >>)}
             THEN SP_CONVERSION_SYS_PROMPT_FLASK
             ELSE IF key \in {Str(<< "python", "/", "fastapi" >>), Str(<< "fastapi" >>)}
             THEN SP_CONVERSION_SYS_PROMPT_FASTAPI
             ELSE SP_CONVERSION_SYS_PROMPT

\* the characters of the target names tried: the words of the known targets
\* in either case, the separator, a blank
TargetChars ==
    UNION {Cased(w) : w \in {"java", "springboot", "python", "flask", "fastapi"}}
    \cup {[letter |-> "/", upper |-> FALSE], Blank}
\* n blanks
Blanks(n) == [j \in 1..n |-> Blank]
\* the arguments tried: None, and every string of at most MaxWord characters
\* between at most MaxPad blanks on either side
TargetFrameworks ==
    {None} \cup
    {[none |-> FALSE, text |-> Blanks(a) \o w \o Blanks(b)] :
        a \in 0..MaxPad, b \in 0..MaxPad, w \in ListsOf(TargetChars, MaxWord)}

\* no conversion chain is being built
PromptIdle ==
    /\ target_framework = None
    /\ system_prompt = "unset"

PromptInit ==
    /\ target_framework \in TargetFrameworks
    /\ system_prompt = "unset"

\* get_conversion_chain(target_framework), up to the template
get_conversion_chain ==
    /\ system_prompt = "unset"
    /\ system_prompt' = resolve_system_prompt(target_framework)
    /\ UNCHANGED target_framework
    /\ UNCHANGED <<gvars, svars, rvars, lvars, xvars, fvars>>

----------------------------------------------------------------------------
(* SPConverter                                                              *)

\* procedure identifiers: a base name, with or without the ".sql" suffix
Name(b, suffixed) == [base |-> b, sql |-> suffixed]
\* the stored procedures of the source tree
Bases == {"p", "q"}
\* the identifiers the identification step reports (one of each form)
Idents == {Name("p", FALSE), Name("q", TRUE)}
\* the name the top-level SPConverter is constructed with
TopName == Name("p", FALSE)

\* an identifier used as it was given
AsGiven(n) == n
\* if not name.endswith(".sql"): name = f"{name}.sql"
Normalize(n) == IF n.sql THEN n ELSE [n EXCEPT !.sql = TRUE]

\* the lists of at most MaxDeps identifiers
DepLists == UNION { [1..n -> Idents] : n \in 0..MaxDeps }

\* Python truthiness of a looked-up store entry: None, {} and [] are falsy
Truthy(entry) == entry.found /\ entry.code # EmptyCode

\* find_from_json(file, key=k) on the object-shaped store: data.get(key)
find_from_json(data, key) ==
    IF key \in DOMAIN data THEN [found |-> TRUE, code |-> data[key]]
    ELSE [found |-> FALSE, code |-> EmptyCode]

\* a chunked that leaves out a last chunk shorter than chunk_size
chunked_full_only(items, chunk_size) ==
    [b \in 1..(Len(items) \div chunk_size) |->
        PySlice(items, (b - 1) * chunk_size, (b - 1) * chunk_size + chunk_size)]
\* chunked(items, chunk_size): the slices items[start:start + chunk_size] for
\* start in range(0, len(items), chunk_size), in that order
chunked(items, chunk_size) ==
    [b \in 1..CeilDiv(Len(items), chunk_size) |->
        PySlice(items, (b - 1) * chunk_size, (b - 1) * chunk_size + chunk_size)]

\* a guard that also improves a result whose score equals the threshold
ShouldImproveInclusive(score) == score <= RunTarget
\* run: `if self.evaluation.score < 90` guards each runV2
ShouldImprove(score) == score < RunTarget

\* a loop that runs once more than the budget
LoopContinuesInclusive(i, budget) == i <= budget
\* run: `for i in range(self.iterations)`
LoopContinues(i, budget) == i < budget

\* what the language model does with a conversion or improvement request: it
\* answers with text that holds a file mapping, with text that cannot be parsed, or
\* the call raises
ModelCode ==
    [ok : {TRUE}, parses : {TRUE}, code : Files]
    \cup {[ok |-> TRUE, parses |-> FALSE, code |-> EmptyCode],
          [ok |-> FALSE, parses |-> FALSE, code |-> EmptyCode]}

\* json_to_dict: the mapping in the text; the empty mapping when the text
\* cannot be parsed (the exception is caught inside json_to_dict)
json_to_dict(r) == IF r.parses THEN r.code ELSE EmptyCode

\* convert_sp_v2: the request carries "code": self.code
CodeForImprovement(f) == f.code
\* what the evaluation agent returns: an EvaluationOut or an error
RunScores == {89, 90, 101}
ModelEval == [ok : {TRUE}, score : RunScores, improvements : ImpCounts]
             \cup {[ok |-> FALSE, score |-> 0, improvements |-> 0]}

\* read_sql_file(path): the text of the file; when the file cannot be opened,
\* the exception is caught inside the loop over the encodings and the function
\* returns the string f"Error: {e}"
read_sql_file(exists) == IF exists THEN "content" ELSE "error"

\* SPConverter.__init__(name, recursion, iterations) (read_sp normalises the
\* name), at the start of run
\* mapping: whether self.code is a dict (it is the list [] until a conversion
\* assigns it); lookups: history of the keys this run looked up in the
\* procedure store; response: history, what the initial conversion call got;
\* system_prompt: history, the template of the initial conversion's chain;
\* java: whether get_runtime_config found pom.xml; builds, fixes, containers:
\* history, the results of build_image, attempt_auto_fix and run_container;
\* built: history, the Dockerfile each build_image ran with
NewConverter(n, rec, iters) ==
    [name |-> Normalize(n), recursion |-> rec, iterations |-> iters,
     sp |-> read_sql_file(Normalize(n).base \in sources),
     pc |-> "prepare",
     dependancies |-> << >>, k |-> 1, stored_procedures |-> << >>,
     lookups |-> << >>,
     code |-> EmptyCode, mapping |-> FALSE, score |-> -1, improvements |-> 0,
     response |-> "none", system_prompt |-> "unset",
     java |-> FALSE, builds |-> << >>, built |-> << >>, fixes |-> << >>,
     containers |-> << >>,
     i |-> 0, batch |-> 1, calls |-> << >>,
     trace |-> << >>,
     initial |-> EmptyCode, first |-> -1, exported |-> << >>]

Top == stack[Len(stack)]
SetTop(f) == [stack EXCEPT ![Len(stack)] = f]
Running == Len(stack) > 0 /\ raised = "none"

\* what `docker build` does: the tool is missing (subprocess.run raises
\* FileNotFoundError), or it runs and exits with a status and a log
DockerBuilds ==
    {[found |-> FALSE, returncode |-> 0, stdout |-> ""],
     [found |-> TRUE, returncode |-> 0, stdout |-> "log"],
     [found |-> TRUE, returncode |-> 1, stdout |-> "log"],
     [found |-> TRUE, returncode |-> 1, stdout |-> "copy failed"]}
\* what `docker run -d` does: the tool is missing, or it runs, exits with a
\* status and, on success, prints the container id
DockerRuns ==
    {[found |-> FALSE, returncode |-> 0],
     [found |-> TRUE, returncode |-> 0],
     [found |-> TRUE, returncode |-> 125]}

\* the packaging environments; what a call the run does not make would do is
\* left out: an environment whose second build or whose `docker run` cannot
\* happen has the tool's first answer, or no tool, in that place
DockerEnvs ==
    {e \in [pom : BOOLEAN, first : DockerBuilds, second : DockerBuilds,
            run : DockerRuns] :
        LET rebuilt == e.first.found /\ e.first.returncode # 0
                       /\ e.first.stdout = "copy failed" /\ e.pom
            last    == IF rebuilt THEN e.second ELSE e.first
        IN  /\ ~rebuilt => e.second = e.first
            /\ ~(last.found /\ last.returncode = 0) => ~e.run.found}
\* the environment where the first build fails on a COPY, the Dockerfile
\* rewritten by the auto-fix builds, and the container starts
BuildsAfterFix ==
    [pom |-> TRUE,
     first |-> [found |-> TRUE, returncode |-> 1, stdout |-> "copy failed"],
     second |-> [found |-> TRUE, returncode |-> 0, stdout |-> "log"],
     run |-> [found |-> TRUE, returncode |-> 0]]

\* what a project directory's Dockerfile holds: nothing (no file), or one of
\* the templates _dockerfile_java_springboot, _dockerfile_generic and
\* _dockerfile_java_springboot_fallback
DockerfileContents == {"none", "springboot", "generic", "fallback"}
\* fresh project directories
NoDockerfiles == [b \in Bases |-> "none"]
\* the project directories as earlier runs of the program can have left them
ProjectDirs == [Bases -> DockerfileContents]

\* no SPConverter is running
NoRun ==
    /\ stack = << >>
    /\ rel = [b \in Bases |-> << >>]
    /\ sources = Bases
    /\ docker = BuildsAfterFix
    /\ dockerfiles = NoDockerfiles
    /\ recursion = FALSE
    /\ iterations = 0
    /\ retries = 0
    /\ raised = "none"
    /\ finished = {}
    /\ events = {}

SPIdle ==
    /\ NoRun
    /\ store = << >>
    /\ storeFile = FALSE

\* the procedure store before the run: absent, or holding earlier results
Prestored == {Name("q", TRUE)}
InitialStores == UNION { [S -> Files] : S \in SUBSET Prestored }

\* what the identification step reports for each procedure: any list for the
\* top-level one, at most one identifier for the other
Relations == {r \in [Bases -> DepLists] : Len(r["q"]) <= 1}

\* a run in a source tree that holds the files of the procedures in srcs, in
\* one of the packaging environments envs, with the project directories in
\* one of the states dirs
SPInitWith(srcs, envs, dirs) ==
    /\ sources = srcs
    /\ docker \in envs
    /\ dockerfiles \in dirs
    /\ recursion \in BOOLEAN
    /\ iterations \in 0..MaxIters
    /\ stack = << NewConverter(TopName, recursion, iterations) >>
    /\ \/ storeFile = FALSE /\ store = << >>
       \/ storeFile = TRUE /\ store \in InitialStores
    /\ rel \in Relations
    /\ retries = 0
    /\ raised = "none"
    /\ finished = {}
    /\ events = {}

\* every procedure has its source file
SPInit == SPInitWith(Bases, {BuildsAfterFix}, {NoDockerfiles})
\* the source file of at least one procedure is missing
MissingSourceInit ==
    \E srcs \in (SUBSET Bases) \ {Bases} :
        SPInitWith(srcs, {BuildsAfterFix}, {NoDockerfiles})
\* every packaging environment and every state of the project directories, for
\* the runs of a procedure with one internal procedure, which has none itself,
\* and a budget of 1; a project directory that holds a Spring Boot Dockerfile
\* holds the pom.xml that made an earlier run write it
DockerInit ==
    /\ SPInitWith(Bases, DockerEnvs, ProjectDirs)
    /\ \A b \in Bases : dockerfiles[b] \in {"springboot", "fallback"} => docker.pom
    /\ rel = [b \in Bases |-> IF b = "p" THEN << Name("q", TRUE) >> ELSE << >>]
    /\ iterations = 1

\* an exception that no frame catches: it leaves every nested run
Raise(err, event) ==
    /\ raised' = err
    /\ events' = events \cup event

\* where prepare_dependencies goes after the dependency at index k - 1
AfterDependency(f) ==
    IF f.recursion /\ f.k <= Len(f.dependancies) THEN "deps" ELSE "convert"

\* a child constructed with the defaults of SPConverter.__init__
ChildArgsDefault(parent) == [recursion |-> FALSE, iterations |-> 2]
\* SPConverter(sp, recursion=self.recursion, iterations=self.iterations)
ChildArgs(parent) ==
    [recursion |-> parent.recursion, iterations |-> parent.iterations]

\* prepare_dependencies, up to the internal stored procedures: the
\* identification call; identify_dependancies catches the model call's error,
\* logs it and returns None, and `self.dependancies.entities` then raises
\* AttributeError, which no frame catches
identify_dependancies ==
    /\ Running /\ Top.pc = "prepare"
    /\ \E ok \in BOOLEAN :
         IF ok
         THEN LET f == [Top EXCEPT !.dependancies = rel[Top.name.base], !.k = 1]
              IN  /\ stack' = SetTop([f EXCEPT !.pc = AfterDependency(f)])
                  /\ UNCHANGED <<raised, events>>
         ELSE /\ Raise("AttributeError", {"identification_failed"})
              /\ UNCHANGED stack
    /\ UNCHANGED <<store, storeFile, rel, sources, docker, dockerfiles, recursion, iterations, retries, finished>>
    /\ UNCHANGED <<gvars, rvars, lvars, pvars, xvars, fvars>>

\* prepare_dependencies: one iteration of the loop over
\* internal_stored_procedures (recursion enabled)
prepare_dependencies ==
    /\ Running /\ Top.pc = "deps"
    /\ LET sp  == Normalize(Top.dependancies[Top.k])
           sps == find_from_json(store, sp)
       IN  IF ~storeFile
           THEN /\ Raise("FileNotFoundError", {})
                /\ UNCHANGED <<stack, finished>>
           ELSE IF Truthy(sps)
           THEN LET f == [Top EXCEPT !.stored_procedures = Append(@, sp), !.k = @ + 1,
                                     !.lookups = Append(@, sp)]
                IN  /\ stack' = SetTop([f EXCEPT !.pc = AfterDependency(f)])
                    /\ UNCHANGED <<raised, events, finished>>
           ELSE IF Len(stack) + 1 > RecursionLimit
           THEN /\ Raise("RecursionError",
                         {"overflow_resolving"}
                         \cup (IF sp \in finished THEN {"miss_after_finish"} ELSE {}))
                /\ stack' = SetTop([Top EXCEPT !.lookups = Append(@, sp)])
                /\ UNCHANGED finished
           ELSE /\ stack' = Append(SetTop([Top EXCEPT !.lookups = Append(@, sp)]),
                                   NewConverter(sp, ChildArgs(Top).recursion,
                                                ChildArgs(Top).iterations))
                /\ events' = events \cup
                       (IF sp \in finished THEN {"miss_after_finish"} ELSE {})
                /\ UNCHANGED <<raised, finished>>
    /\ UNCHANGED <<store, storeFile, rel, sources, docker, dockerfiles, recursion, iterations, retries>>
    /\ UNCHANGED <<gvars, rvars, lvars, pvars, xvars, fvars>>

\* a run that hands control back before its export phase
ReturnedBeforeExport(f) == f.pc \in {"export", "done"}
\* run has executed its last statement: the call tmp_run.run() returns
Returned(f) == f.pc = "done"

\* tmp_run.run() returns: the parent goes on with the next dependency; the
\* lookup is not repeated
child_returns ==
    /\ Running /\ Len(stack) > 1 /\ Returned(Top)
    /\ LET parent == stack[Len(stack) - 1]
           f      == [parent EXCEPT !.k = @ + 1]
       IN  stack' = SubSeq(stack, 1, Len(stack) - 2)
                      \o << [f EXCEPT !.pc = AfterDependency(f)] >>
    /\ finished' = finished \cup {Top.name}
    /\ UNCHANGED <<store, storeFile, rel, sources, docker, dockerfiles, recursion, iterations, retries, raised, events>>
    /\ UNCHANGED <<gvars, rvars, lvars, pvars, xvars, fvars>>

\* evaluate_sp followed by `self.evaluation = score` and the logging of
\* self.evaluation.score in runV1/runV2: a model error makes evaluate_sp return
\* the string "{}", whose .score raises AttributeError
Evaluated(f, r, next) ==
    [f EXCEPT !.score = r.score, !.improvements = r.improvements,
              !.first = IF f.first = -1 THEN r.score ELSE @,
              !.trace = Append(@, "EVALUATE"),
              !.pc = next]

EvaluationFailed(f) ==
    [f EXCEPT !.trace = Append(@, "EVALUATE")]

\* runV1: self.convert_sp(target_framework="flask")
RunV1Target == [none |-> FALSE, text |-> Str(<< "flask" >>)]

\* runV1, first half: convert_sp with the chain get_conversion_chain builds for
\* the target; an error is swallowed and self.code keeps
\* its initial empty value, an unparseable response gives the empty mapping
convert_sp ==
    /\ Running /\ Top.pc = "convert"
    /\ \E r \in ModelCode :
         stack' = SetTop([Top EXCEPT !.code = IF r.ok THEN json_to_dict(r) ELSE @,
                                     !.mapping = r.ok,
                                     !.system_prompt =
                                         resolve_system_prompt(RunV1Target),
                                     !.response = IF ~r.ok THEN "error"
                                                  ELSE IF r.parses THEN "parsed"
                                                  ELSE "unparsed",
                                     !.initial = IF r.ok THEN json_to_dict(r) ELSE Top.code,
                                     !.trace = Append(@, "CONVERT"),
                                     !.pc = "evalV1"])
    /\ UNCHANGED <<store, storeFile, rel, sources, docker, dockerfiles, recursion, iterations, retries, raised,
                   finished, events>>
    /\ UNCHANGED <<gvars, rvars, lvars, pvars, xvars, fvars>>

\* runV1, second half: evaluate_sp and the logging of the evaluation
runV1 ==
    /\ Running /\ Top.pc = "evalV1"
    /\ \E r \in ModelEval :
         IF r.ok
         THEN /\ stack' = SetTop(Evaluated(Top, r, "loop"))
              /\ UNCHANGED <<raised, events>>
         ELSE /\ stack' = SetTop(EvaluationFailed(Top))
              /\ Raise("AttributeError", {})
    /\ UNCHANGED <<store, storeFile, rel, sources, docker, dockerfiles, recursion, iterations, retries, finished>>
    /\ UNCHANGED <<gvars, rvars, lvars, pvars, xvars, fvars>>

\* run: one iteration of `for i in range(self.iterations)`, up to the start of
\* runV2's loop over the chunks; after the last iteration, on to the export
run ==
    /\ Running /\ Top.pc = "loop"
    /\ IF LoopContinues(Top.i, Top.iterations)
       THEN IF ShouldImprove(Top.score)
            THEN stack' = SetTop([Top EXCEPT
                     !.trace = Append(@, "IMPROVE"),
                     !.batch = 1,
                     !.calls = << >>,
                     !.pc = IF Len(chunked(Suggestions(Top.improvements), ChunkSize)) >= 1
                            THEN "improve" ELSE "evalV2"])
            ELSE stack' = SetTop([Top EXCEPT !.i = @ + 1])
       ELSE stack' = SetTop([Top EXCEPT !.pc = "export"])
    /\ UNCHANGED <<store, storeFile, rel, sources, docker, dockerfiles, recursion, iterations, retries, raised,
                   finished, events>>
    /\ UNCHANGED <<gvars, rvars, lvars, pvars, xvars, fvars>>

\* convert_sp_v2 for the current chunk: one attempt.  A model error makes it
\* call itself with the same chunk, one frame deeper; the interpreter raises
\* RecursionError when the stack is full, and no frame of the run catches it
\* outside a handler.  An unparseable response is not an error: json_to_dict
\* returns the empty mapping, which convert_sp_v2 stores and returns.
\* calls: history of the calls of the current runV2 pass that returned.
convert_sp_v2 ==
    /\ Running /\ Top.pc = "improve"
    /\ \E r \in ModelCode :
         IF r.ok
         THEN /\ stack' = SetTop([Top EXCEPT
                     !.code = json_to_dict(r),
                     !.mapping = TRUE,
                     !.calls = Append(@,
                         [improvements |-> chunked(Suggestions(Top.improvements),
                                                   ChunkSize)[Top.batch],
                          code         |-> CodeForImprovement(Top),
                          parsed       |-> r.parses,
                          result       |-> json_to_dict(r)]),
                     !.batch = @ + 1,
                     !.pc = IF Top.batch + 1 >
                               Len(chunked(Suggestions(Top.improvements), ChunkSize))
                            THEN "evalV2" ELSE "improve"])
              /\ retries' = 0
              /\ UNCHANGED <<raised, events>>
         ELSE IF Len(stack) + retries + 1 > RecursionLimit
         THEN /\ UNCHANGED stack
              /\ Raise("RecursionError", {"overflow_retrying"})
              /\ UNCHANGED retries
         ELSE /\ UNCHANGED stack
              /\ retries' = retries + 1
              /\ UNCHANGED <<raised, events>>
    /\ UNCHANGED <<store, storeFile, rel, sources, docker, dockerfiles, recursion, iterations, finished>>
    /\ UNCHANGED <<gvars, rvars, lvars, pvars, xvars, fvars>>

\* runV2, after the chunks: evaluate_sp and the logging of the evaluation
\* (the pass is over: its call history is dropped)
runV2 ==
    /\ Running /\ Top.pc = "evalV2"
    /\ \E r \in ModelEval :
         IF r.ok
         THEN /\ stack' = SetTop([Evaluated(Top, r, "loop") EXCEPT
                                       !.i = @ + 1, !.calls = << >>])
              /\ UNCHANGED <<raised, events>>
         ELSE /\ stack' = SetTop(EvaluationFailed(Top))
              /\ Raise("AttributeError", {})
    /\ UNCHANGED <<store, storeFile, rel, sources, docker, dockerfiles, recursion, iterations, retries, finished>>
    /\ UNCHANGED <<gvars, rvars, lvars, pvars, xvars, fvars>>

\* a save that leaves the store alone when the result is empty
save_code_unless_empty(exists, data, name, code) ==
    IF code = EmptyCode THEN data
    ELSE IF ~exists THEN name :> code
    ELSE (name :> code) @@ data
\* a save that writes a file holding only the new entry, whatever was stored
save_code_overwriting(exists, data, name, code) == name :> code
\* save_code, the content it writes: {name: code} when the store file does not
\* exist, else the parsed file with data[name] = code
save_code(exists, data, name, code) ==
    IF ~exists THEN name :> code
    ELSE (name :> code) @@ data

\* run: export_code and save_code
export_code ==
    /\ Running /\ Top.pc = "export"
    /\ stack' = SetTop([Top EXCEPT !.exported = Append(@, Top.code),
                                   !.trace = Append(@, "EXPORT"),
                                   !.pc = "package"])
    /\ store' = save_code(storeFile, store, Top.name, Top.code)
    /\ storeFile' = TRUE
    /\ UNCHANGED <<rel, sources, docker, dockerfiles, recursion, iterations, retries, raised, finished, events>>
    /\ UNCHANGED <<gvars, rvars, lvars, pvars, xvars, fvars>>

\* a build_image that reports a missing tool like any other error
build_image_result_generic(completed) ==
    IF ~completed.found THEN [rc |-> 1, out |-> "docker not found"]
    ELSE [rc |-> completed.returncode, out |-> completed.stdout]
\* DockerAgent.build_image: (returncode, stdout), or (127, "docker not found")
\* from the handler of FileNotFoundError
build_image_result(completed) ==
    IF ~completed.found THEN [rc |-> 127, out |-> "docker not found"]
    ELSE [rc |-> completed.returncode, out |-> completed.stdout]

\* DockerAgent.run_container: (returncode, container_id, output), the id only
\* for exit status 0; (127, None, "docker not found") when the tool is missing
run_container_result(completed) ==
    IF ~completed.found THEN [rc |-> 127, id |-> FALSE]
    ELSE [rc |-> completed.returncode, id |-> completed.returncode = 0]

\* DockerAgent.ensure_dockerfile: an existing Dockerfile is left as it is, a
\* missing one is written from the template of the runtime configuration
ensure_dockerfile(dockerfile, java) ==
    IF dockerfile # "none" THEN dockerfile
    ELSE IF java THEN "springboot" ELSE "generic"

\* DockerAgent.attempt_auto_fix: (applied_fix, the Dockerfile it leaves).  The
\* Dockerfile is rewritten with the fallback template when the build output
\* names a failed COPY or a missing target and the project is Java / Spring
\* Boot; otherwise a missing Dockerfile is created by ensure_dockerfile
attempt_auto_fix_result(dockerfile, build_output, java) ==
    LET rewritten == build_output = "copy failed" /\ java
        created   == ~rewritten /\ dockerfile = "none"
    IN  [applied_fix |-> rewritten \/ created,
         dockerfile  |-> IF rewritten THEN "fallback"
                         ELSE ensure_dockerfile(dockerfile, java)]

\* a run that goes back to the auto-fix after every failed build
AfterBuildRetrying(n, build_rc) ==
    IF build_rc = 0 THEN "run_container" ELSE "autofix"
\* run, after the n-th build_image: `if build_rc != 0` follows the first build
\* only, `if build_rc == 0` follows the last
AfterBuild(n, build_rc) ==
    IF build_rc # 0 /\ n = 1 THEN "autofix"
    ELSE IF build_rc = 0 THEN "run_container"
    ELSE "done"

\* a run that packages what it has not exported yet
PackagingStartsEarly(f) == f.pc \in {"export", "package"}
\* run: the packaging statements follow export_code and save_code
PackagingStarts(f) == f.pc = "package"

\* run: arrange_exported_code, create_pom, get_runtime_config,
\* ensure_dockerignore, ensure_dockerfile.  arrange_exported_code and
\* create_pom catch their exceptions; create_pom reloads an empty self.code
\* from the procedure store; pom.xml is there when the POM model call
\* succeeded or an earlier run left one
create_pom ==
    /\ Running /\ PackagingStarts(Top)
    /\ stack' = SetTop([Top EXCEPT
                    !.code = IF Top.code = EmptyCode
                             THEN find_from_json(store, Top.name).code ELSE @,
                    !.java = docker.pom,
                    !.pc = "build"])
    /\ dockerfiles' = [dockerfiles EXCEPT
                          ![Top.name.base] = ensure_dockerfile(@, docker.pom)]
    /\ UNCHANGED <<store, storeFile, rel, sources, docker, recursion, iterations, retries, raised,
                   finished, events>>
    /\ UNCHANGED <<gvars, rvars, lvars, pvars, xvars, fvars>>

\* run: docker_agent.build_image, the first call or the one after the fix
build_image ==
    /\ Running /\ Top.pc = "build"
    /\ LET r == build_image_result(IF Top.builds = << >> THEN docker.first
                                   ELSE docker.second)
       IN  stack' = SetTop([Top EXCEPT
                       !.builds = Append(@, r),
                       !.built = Append(@, dockerfiles[Top.name.base]),
                       !.pc = AfterBuild(Len(Top.builds) + 1, r.rc)])
    /\ UNCHANGED <<store, storeFile, rel, sources, docker, dockerfiles, recursion, iterations, retries, raised,
                   finished, events>>
    /\ UNCHANGED <<gvars, rvars, lvars, pvars, xvars, fvars>>

\* run: `if docker_agent.attempt_auto_fix(project_dir, runtime_cfg, build_out)`
attempt_auto_fix ==
    /\ Running /\ Top.pc = "autofix"
    /\ LET fix == attempt_auto_fix_result(dockerfiles[Top.name.base],
                                          Top.builds[Len(Top.builds)].out,
                                          Top.java)
       IN  /\ stack' = SetTop([Top EXCEPT
                          !.fixes = Append(@, fix.applied_fix),
                          !.pc = IF fix.applied_fix THEN "build" ELSE "done"])
           /\ dockerfiles' = [dockerfiles EXCEPT ![Top.name.base] = fix.dockerfile]
    /\ UNCHANGED <<store, storeFile, rel, sources, docker, recursion, iterations, retries, raised,
                   finished, events>>
    /\ UNCHANGED <<gvars, rvars, lvars, pvars, xvars, fvars>>

\* run: docker_agent.run_container; its result is written to a log only
run_container ==
    /\ Running /\ Top.pc = "run_container"
    /\ stack' = SetTop([Top EXCEPT
                    !.containers = Append(@, run_container_result(docker.run)),
                    !.pc = "done"])
    /\ UNCHANGED <<store, storeFile, rel, sources, docker, dockerfiles, recursion, iterations, retries, raised,
                   finished, events>>
    /\ UNCHANGED <<gvars, rvars, lvars, pvars, xvars, fvars>>

----------------------------------------------------------------------------
(* export_code on the unit's output directory ../out/SP/<name>              *)

\* no export_code call is being studied
ExportIdle ==
    /\ converter = [pc |-> "idle"]
    /\ outdir = << >>

\* the EvaluationOut objects a run can hold when it exports
Evaluations == [score : RunScores, improvements : ImpCounts]

\* what the directory holds: a file is absent (the empty sequence) or has a
\* content (a one-element sequence); files stands for the exported code files
EmptyDir == [files |-> << >>, evaluation |-> << >>, dependancies |-> << >>]
\* the directory prepare_output_folders has just made, or the one an earlier
\* run of the unit exported to
Directories ==
    {EmptyDir} \cup
    {[files |-> << c >>, evaluation |-> << e >>, dependancies |-> << d >>] :
        c \in Codes, e \in Evaluations, d \in DepLists}

\* the fields export_code reads: self.code is still the list [] (mapping
\* FALSE) or a dict, self.evaluation, self.dependancies
Exporters ==
    {x \in [pc : {"export"}, mapping : BOOLEAN, code : Codes,
            evaluation : Evaluations, dependancies : DepLists] :
        ~x.mapping => x.code = EmptyCode}

ExportInit ==
    /\ converter \in Exporters
    /\ outdir \in Directories

\* export_code: the directory afterwards.  self.code.items() raises
\* AttributeError on a list, inside the try block and before anything is
\* written; evaluation.json is opened with 'w'; dependancies.json is written
\* only `if not os.path.exists(...)`
exported_directory(dir, c) ==
    IF ~c.mapping THEN dir
    ELSE [files |-> IF c.code = EmptyCode THEN dir.files ELSE << c.code >>,
          evaluation |-> << c.evaluation >>,
          dependancies |-> IF dir.dependancies = << >> THEN << c.dependancies >>
                           ELSE dir.dependancies]

\* export_code; its handler catches every exception
export_files ==
    /\ converter.pc = "export"
    /\ outdir' = exported_directory(outdir, converter)
    /\ converter' = [converter EXCEPT !.pc = "exported"]
    /\ UNCHANGED <<gvars, svars, rvars, lvars, pvars, fvars>>

----------------------------------------------------------------------------
\* no other process is inside save_code
SaveIdle ==
    /\ savers = << >>
    /\ storeText = "json"
    /\ written = << >>

\* the names save_code stores under (read_sp added the suffix)
StoreNames == {Name(b, TRUE) : b \in Bases}

\* a process about to run save_code with its self.name and self.code
NewSaver(n, c) ==
    [name |-> n, code |-> c, pc |-> "exists", read |-> << >>, data |-> << >>]

\* MaxSavers processes reach save_code of their runs at the same time
SaveInit ==
    /\ savers \in [1..MaxSavers -> {NewSaver(n, c) : n \in StoreNames, c \in Codes}]
    /\ \/ storeFile = FALSE /\ store = << >>
       \/ storeFile = TRUE /\ store \in InitialStores
    /\ storeText = "json"
    /\ written = << >>

\* a write that adds to what the file held
write_back_merging(current, new) == new @@ current
\* file.write(json.dumps(data)) into the file opened with 'w': what the file
\* holds afterwards is the written text
write_back(current, new) == new

\* save_code, `if not os.path.exists(...)`
save_exists ==
    /\ \E p \in DOMAIN savers :
         /\ savers[p].pc = "exists"
         /\ savers' = [savers EXCEPT ![p].pc = IF storeFile THEN "load" ELSE "create"]
    /\ UNCHANGED <<store, storeFile, storeText, written>>
    /\ UNCHANGED <<gvars, runvars, lvars, pvars, xvars, fvars>>

\* save_code, first branch: open(..., 'w') creates the file, empty
save_create ==
    /\ \E p \in DOMAIN savers :
         /\ savers[p].pc = "create"
         /\ savers' = [savers EXCEPT
                ![p].data = save_code(FALSE, << >>, savers[p].name, savers[p].code),
                ![p].pc = "flush"]
    /\ storeFile' = TRUE
    /\ storeText' = "empty"
    /\ UNCHANGED <<store, written>>
    /\ UNCHANGED <<gvars, runvars, lvars, pvars, xvars, fvars>>

\* save_code, second branch: json.load(file) and data[name] = code; an empty
\* or garbled file makes json.load raise
save_load ==
    /\ \E p \in DOMAIN savers :
         /\ savers[p].pc = "load"
         /\ savers' = IF storeText = "json"
                       THEN [savers EXCEPT
                                ![p].read = store,
                                ![p].data = save_code(TRUE, store, savers[p].name,
                                                      savers[p].code),
                                ![p].pc = "open"]
                       ELSE [savers EXCEPT ![p].pc = "raised"]
    /\ UNCHANGED <<store, storeFile, storeText, written>>
    /\ UNCHANGED <<gvars, runvars, lvars, pvars, xvars, fvars>>

\* save_code, second branch: open(..., 'w') truncates the file
save_open ==
    /\ \E p \in DOMAIN savers :
         /\ savers[p].pc = "open"
         /\ savers' = [savers EXCEPT ![p].pc = "flush"]
    /\ storeText' = "empty"
    /\ UNCHANGED <<store, storeFile, written>>
    /\ UNCHANGED <<gvars, runvars, lvars, pvars, xvars, fvars>>

\* save_code, either branch: the text is written when the `with` block closes
\* the file.  When another process wrote since this one opened the file, this
\* text lands over the other one from offset 0: the file holds this text, or,
\* when this text is the shorter one, this text followed by the other's tail
save_flush ==
    /\ \E p \in DOMAIN savers :
         /\ savers[p].pc = "flush"
         /\ savers' = [savers EXCEPT ![p].pc = "done"]
         /\ store' = write_back(store, savers[p].data)
         /\ written' = Append(written, p)
         /\ \/ storeText' = "json"
            \/ storeText # "empty" /\ storeText' = "garbled"
    /\ UNCHANGED storeFile
    /\ UNCHANGED <<gvars, runvars, lvars, pvars, xvars, fvars>>

----------------------------------------------------------------------------
(* Catalogue lookups: find_from_json and the loops of prepare_dependencies  *)

\* identifiers in every mix of cases: the casings of "ab" and of "c"
Identifiers ==
    {<< x, y >> : x \in Cased("a"), y \in Cased("b")} \cup {<< x >> : x \in Cased("c")}
\* the keys of the procedure store that differ at most in case
ProcedureKeys == {<< x, y >> : x \in Cased("a"), y \in Cased("b")}

\* f"{e}.java": the extension is appended as one lower-case token
WithJava(e) == Append(e, [letter |-> ".java", upper |-> FALSE])

\* the field a catalogue is searched by, and the field that holds the code
KeyField(cat) == IF cat = "entities" THEN "entity_name" ELSE "java_function_name"
TextField(cat) == IF cat = "entities" THEN "entity" ELSE "java_function"

\* the record create_entities / create_functions / create_triggers append for
\* a file name; the code of the record at position i is identified by i
Record(cat, name, i) ==
    [f \in {KeyField(cat), TextField(cat)} |-> IF f = KeyField(cat) THEN name ELSE i]

\* find_from_json(file, key, value) on an array of records: the loop
\* `for i in data: if i.get(key).lower() == value.lower(): return i`, None
\* (the empty sequence here, a one-record sequence for a hit) after the loop
RECURSIVE find_from_json_value(_, _, _, _)
find_from_json_value(items, key, value, i) ==
    IF i > Len(items) THEN << >>
    ELSE IF Lower(items[i][key]) = Lower(value) THEN << items[i] >>
    ELSE find_from_json_value(items, key, value, i + 1)

\* a resolved text that grows at the front
AddBlockInFront(text, name, code) == << [name |-> name, code |-> code] >> \o text
\* entities += f"{entity['entity_name']}\n{entity['entity']}\n\n"
AddBlock(text, name, code) == Append(text, [name |-> name, code |-> code])

\* the catalogue files create_entities, create_functions and create_triggers
\* wrote, a procedure store, and the identifiers the identification reported
LookupInit ==
    /\ \/ /\ category \in {"entities", "functions", "triggers"}
          /\ \E names \in ListsOf({WithJava(n) : n \in Identifiers}, MaxRecs) :
                catalogue = [shape |-> "list",
                             items |-> [i \in 1..Len(names) |->
                                          Record(category, names[i], i)]]
          /\ wanted \in ListsOf(Identifiers, MaxWanted)
       \/ /\ category = "procedures"
          /\ \E keys \in SUBSET ProcedureKeys :
                \E m \in [keys -> Codes] : catalogue = [shape |-> "dict", items |-> m]
          /\ wanted \in ListsOf(ProcedureKeys, MaxWanted)
    /\ pos = 1
    /\ resolved = << >>
    /\ found = << >>

\* prepare_dependencies: one iteration of the loop over the entities, the
\* functions or the triggers of the DependencySet
resolve_dependency ==
    /\ category \in {"entities", "functions", "triggers"}
    /\ pos <= Len(wanted)
    /\ LET entity == find_from_json_value(catalogue.items, KeyField(category),
                                          WithJava(wanted[pos]), 1)
       IN  /\ found' = Append(found, entity)
           /\ resolved' = IF entity # << >>
                           THEN AddBlock(resolved, entity[1][KeyField(category)],
                                         entity[1][TextField(category)])
                           ELSE resolved
    /\ pos' = pos + 1
    /\ UNCHANGED <<category, catalogue, wanted>>
    /\ UNCHANGED <<gvars, svars, rvars, pvars, xvars, fvars>>

\* find_from_json(file, key=sp) on the procedure store, and the hit branch of
\* the loop over the internal stored procedures
lookup_procedure ==
    /\ category = "procedures"
    /\ pos <= Len(wanted)
    /\ LET sps == find_from_json(catalogue.items, wanted[pos])
       IN  /\ found' = Append(found, sps)
           /\ resolved' = IF Truthy(sps) THEN AddBlock(resolved, wanted[pos], sps.code)
                           ELSE resolved
    /\ pos' = pos + 1
    /\ UNCHANGED <<category, catalogue, wanted>>
    /\ UNCHANGED <<gvars, svars, rvars, pvars, xvars, fvars>>

\* prepare_dependencies is not running its lookups
LookupIdle ==
    /\ category = "none"
    /\ catalogue = [shape |-> "list", items |-> << >>]
    /\ wanted = << >>
    /\ pos = 1
    /\ resolved = << >>
    /\ found = << >>

----------------------------------------------------------------------------
(* Calls of the helper functions                                            *)

FunctionIdle ==
    /\ call = [fn |-> "none"]
    /\ returned = [raised |-> "unset"]

\* the lists chunked is called with
ItemLists == ListsOf({"x", "y"}, MaxItems)

ChunkInit ==
    /\ call \in [fn : {"chunked"}, items : ItemLists, chunk_size : -1..MaxChunk]
    /\ returned = [raised |-> "unset"]

\* the caller iterates over chunked(items, chunk_size) to the end: the
\* generator's body starts at the first next(), where a chunk_size <= 0 raises
\* ValueError before anything is yielded
iterate_chunked ==
    /\ call.fn = "chunked" /\ returned.raised = "unset"
    /\ returned' = IF call.chunk_size <= 0
                   THEN [raised |-> "ValueError", yielded |-> << >>]
                   ELSE [raised |-> "none",
                         yielded |-> chunked(call.items, call.chunk_size)]
    /\ UNCHANGED call
    /\ UNCHANGED <<gvars, svars, rvars, lvars, pvars, xvars>>

\* the lexical units of a response text: the braces of a JSON object, a member
\* key with its colon, a string literal, an array literal, the code fence
\* (three backquotes), the word json and white space
Tokens == {"{", "}", "k", "s", "a", "fence", "json", " "}
Texts == ListsOf(Tokens, MaxText)

\* Python values: a dict with its values in order, a list, a str
Dict(values) == [type |-> "dict", values |-> values]
EmptyDict == Dict(<< >>)
List == [type |-> "list", values |-> << >>]
String == [type |-> "str", values |-> << >>]
\* a str argument, with its text
Text(t) == [type |-> "str", text |-> t]

NotSpace(token) == token # " "

\* json.loads(text): the value of a text that is one JSON value (white space
\* between the lexical units is skipped), JSONDecodeError for any other text
RECURSIVE json_loads(_)
json_loads(text) ==
    LET units   == SelectSeq(text, NotSpace)
        invalid == [ok |-> FALSE, value |-> EmptyDict]
    IN  IF units = << "s" >> THEN [ok |-> TRUE, value |-> String]
        ELSE IF units = << "a" >> THEN [ok |-> TRUE, value |-> List]
        ELSE IF Len(units) >= 2 /\ units[1] = "{" /\ units[Len(units)] = "}"
        THEN LET members == SubSeq(units, 2, Len(units) - 1)
             IN  IF members = << >> THEN [ok |-> TRUE, value |-> EmptyDict]
                 ELSE IF members[1] = "k"
                 THEN LET member == json_loads(Tail(members))
                      IN  IF member.ok
                          THEN [ok |-> TRUE, value |-> Dict(<< member.value >>)]
                          ELSE invalid
                 ELSE invalid
        ELSE invalid

\* text[p], or "" past the end
At(text, p) == IF p \in 1..Len(text) THEN text[p] ELSE ""
Least(S) == CHOOSE x \in S : \A y \in S : x <= y
\* the first position from p on that holds no white space (\s* is greedy)
SkipSpace(text, p) ==
    LET S == {q \in p..Len(text) : text[q] # " "}
    IN  IF S = {} THEN Len(text) + 1 ELSE Least(S)

\* the match of ```(?:json)?\s*({[\s\S]*?})\s*``` that starts at position i:
\* the group runs from the opening brace to the first closing brace that white
\* space and a fence follow
MatchAt(text, i) ==
    LET open   == SkipSpace(text, IF At(text, i + 1) = "json" THEN i + 2 ELSE i + 1)
        closes == {q \in (open + 1)..Len(text) :
                      text[q] = "}" /\ At(text, SkipSpace(text, q + 1)) = "fence"}
    IN  IF At(text, i) = "fence" /\ At(text, open) = "{" /\ closes # {}
        THEN [matched |-> TRUE, group |-> SubSeq(text, open, Least(closes))]
        ELSE [matched |-> FALSE, group |-> << >>]

\* re.search: the match with the leftmost start
re_search(text) ==
    LET starts == {i \in 1..Len(text) : MatchAt(text, i).matched}
    IN  IF starts = {} THEN [matched |-> FALSE, group |-> << >>]
        ELSE MatchAt(text, Least(starts))

\* json_to_dict(json_data): a dict is returned as it is; a str is searched for
\* a fenced object, and the group, or else the whole text, goes to json.loads,
\* whose value is returned whatever its type; every exception (JSONDecodeError,
\* the TypeError of re.search on an argument that is no str) gives {}
json_to_dict_value(json_data) ==
    IF json_data.type = "dict" THEN json_data
    ELSE IF json_data.type # "str" THEN EmptyDict
    ELSE LET json_match == re_search(json_data.text)
             loaded     == json_loads(IF json_match.matched THEN json_match.group
                                      ELSE json_data.text)
         IN  IF loaded.ok THEN loaded.value ELSE EmptyDict

\* the arguments: dicts, texts, and values that are neither (None, or the list
\* of content blocks a chat message can hold)
JsonArguments ==
    {EmptyDict, Dict(<< String >>), [type |-> "NoneType"], List}
    \cup {Text(t) : t \in Texts}

ParseInit ==
    /\ call \in [fn : {"json_to_dict"}, json_data : JsonArguments]
    /\ returned = [raised |-> "unset"]

\* a call of json_to_dict: its body is one try block whose handler returns {}
json_to_dict_call ==
    /\ call.fn = "json_to_dict" /\ returned.raised = "unset"
    /\ returned' = [raised |-> "none", value |-> json_to_dict_value(call.json_data)]
    /\ UNCHANGED call
    /\ UNCHANGED <<gvars, svars, rvars, lvars, pvars, xvars>>

\* nothing but one of the two entry points is running
OthersIdle ==
    SaveIdle /\ LookupIdle /\ PromptIdle /\ ExportIdle /\ FunctionIdle

Init ==
    \/ GraphInit /\ SPIdle /\ OthersIdle
    \/ GraphIdle /\ SPInit /\ OthersIdle

\* the steps of SPConverter.run
RunNext ==
    \/ identify_dependancies
    \/ prepare_dependencies
    \/ child_returns
    \/ convert_sp
    \/ runV1
    \/ run
    \/ convert_sp_v2
    \/ runV2
    \/ export_code
    \/ create_pom
    \/ build_image
    \/ attempt_auto_fix
    \/ run_container

Next ==
    \/ spark_convert
    \/ evaluate
    \/ spark_improve
    \/ spark_export
    \/ RunNext

Spec == Init /\ [][Next]_vars

\* SPConverter.run in a source tree where a procedure's file is missing
MissingSourceSpecInit == GraphIdle /\ MissingSourceInit /\ OthersIdle

MissingSourceSpec == MissingSourceSpecInit /\ [][RunNext]_vars

\* SPConverter.run in every packaging environment
DockerSpecInit == GraphIdle /\ DockerInit /\ OthersIdle

DockerSpec == DockerSpecInit /\ [][RunNext]_vars

\* concurrent save_code calls of MaxSavers processes on one store file
SaveSpecInit ==
    /\ GraphIdle /\ NoRun /\ SaveInit /\ LookupIdle /\ PromptIdle /\ ExportIdle
    /\ FunctionIdle

SaveNext ==
    \/ save_exists
    \/ save_create
    \/ save_load
    \/ save_open
    \/ save_flush

SaveSpec == SaveSpecInit /\ [][SaveNext]_vars

\* the lookups of prepare_dependencies, for every catalogue and identifier list
LookupSpecInit ==
    /\ GraphIdle /\ SPIdle /\ SaveIdle /\ LookupInit /\ PromptIdle /\ ExportIdle
    /\ FunctionIdle

LookupNext ==
    \/ resolve_dependency
    \/ lookup_procedure

LookupSpec == LookupSpecInit /\ [][LookupNext]_vars

\* _resolve_system_prompt on every argument of TargetFrameworks
PromptSpecInit ==
    /\ GraphIdle /\ SPIdle /\ SaveIdle /\ LookupIdle /\ PromptInit /\ ExportIdle
    /\ FunctionIdle

PromptNext == get_conversion_chain

PromptSpec == PromptSpecInit /\ [][PromptNext]_vars

\* export_code for every converter state and directory content
ExportSpecInit ==
    /\ GraphIdle /\ SPIdle /\ SaveIdle /\ LookupIdle /\ PromptIdle /\ ExportInit
    /\ FunctionIdle

ExportNext == export_files

ExportSpec == ExportSpecInit /\ [][ExportNext]_vars

\* json_to_dict on every argument of JsonArguments
ParseSpecInit ==
    /\ GraphIdle /\ SPIdle /\ SaveIdle /\ LookupIdle /\ PromptIdle /\ ExportIdle
    /\ ParseInit

ParseSpec == ParseSpecInit /\ [][json_to_dict_call]_vars

\* list(chunked(items, chunk_size)) for every list and chunk size
ChunkSpecInit ==
    /\ GraphIdle /\ SPIdle /\ SaveIdle /\ LookupIdle /\ PromptIdle /\ ExportIdle
    /\ ChunkInit

ChunkSpec == ChunkSpecInit /\ [][iterate_chunked]_vars

\* every call blocks until it returns or raises, so a run that can take a step
\* takes it
FairSpec == Spec /\ WF_vars(Next)

----------------------------------------------------------------------------
(* Properties                                                               *)

\* the number of occurrences of x in the sequence t
Count(t, x) == Cardinality({j \in 1..Len(t) : t[j] = x})
Range(t) == {t[j] : j \in 1..Len(t)}

\* the graph was invoked the way run_pyspark_conversion invokes it
FullInitialState == {"target_score", "max_iters", "iteration"} \subseteq DOMAIN state
GraphEnded == node \in {"END", "raised"}

\* the activations of SPConverter.run that exist now
Frames == {stack[j] : j \in 1..Len(stack)}
\* an activation is over: it returned, or an exception left it
Ended(f) == f.pc = "done" \/ raised # "none"
RunEnded == raised # "none" \/ (Len(stack) = 1 /\ stack[1].pc = "done")

\* C1: in the PySpark graph, for every max_iters >= 0, target score and
\* sequence of evaluator results, the execution reaches END, after at most
\* max_iters + 1 executions of the evaluate step (stated on finite runs: the
\* evaluate count never exceeds the bound and a run that is over is at END).
C1_ReachesEndWithinBound ==
    (node # "idle" /\ FullInitialState) =>
        /\ Count(gTrace, "EVALUATE") <= state["max_iters"] + 1
        /\ (GraphEnded => node = "END")

\* C2: SPConverter.run terminates with at most iterations + 1 calls of
\* evaluate_sp, whatever the model returns, improvement calls that keep failing
\* included: the number of evaluate_sp calls stays within the bound and the
\* retries of a failing improvement call end by themselves, they do not go on
\* until the interpreter's stack is exhausted.
C2_RunTerminatesWithinBound ==
    /\ \A f \in Frames : Count(f.trace, "EVALUATE") <= iterations + 1
    /\ "overflow_retrying" \notin events

\* C3: every SPConverter.run that started its initial conversion performs the
\* export phase exactly once before it is over, whatever the evaluator call
\* returns or raises.
C3_ExportsExactlyOnce ==
    \A f \in Frames :
        /\ Count(f.trace, "EXPORT") <= 1
        /\ (Ended(f) /\ Count(f.trace, "CONVERT") > 0) => Count(f.trace, "EXPORT") = 1

\* C4: every execution of the PySpark graph executes the export step exactly
\* once before it is over, for every score and improvement list, an empty list
\* with a score below the target included.
C4_GraphExportsExactlyOnce ==
    (node # "idle" /\ FullInitialState) =>
        /\ Count(gTrace, "EXPORT") <= 1
        /\ (GraphEnded => Count(gTrace, "EXPORT") = 1)

\* C5: after every evaluate step the next node is export iff
\* score >= target_score or iteration >= max_iters, and improve otherwise, with
\* the defaults target_score 90, max_iters 3, iteration 0 for missing fields.
C5_RoutingRule ==
    [][node = "evaluate" =>
         LET target    == IF "target_score" \in DOMAIN state'
                          THEN state'["target_score"] ELSE 90
             max_iters == IF "max_iters" \in DOMAIN state'
                          THEN state'["max_iters"] ELSE 3
             iteration == IF "iteration" \in DOMAIN state'
                          THEN state'["iteration"] ELSE 0
         IN  /\ node' \in {"export", "improve"}
             /\ node' = "export" <=>
                    (state'["score"] >= target \/ iteration >= max_iters)]_vars

C5_Witness ==
    /\ node = "improve"
    /\ DOMAIN state \cap {"target_score", "max_iters"} = {}
    /\ "iteration" \in DOMAIN state /\ state["iteration"] = 2
    /\ state["score"] = 89

\* C6: if the first evaluation's score is at least the target (the configured
\* target in the graph, 90 in SPConverter.run), no improve pass happens in that
\* run and the result the export phase gets and writes is the output of the
\* initial conversion.
C6_FastPath ==
    /\ (node # "idle" /\ gFirst.score # -1
          /\ gFirst.score >= Get(state, "target_score", DefaultTarget)) =>
            /\ Count(gTrace, "IMPROVE") = 0
            /\ state["converted_files"] = [shape |-> "OutFiles", files |-> gFirst.files]
            /\ \A x \in Range(gExported) : x = gFirst.files
    /\ \A f \in Frames :
         (f.first # -1 /\ f.first >= 90) =>
            /\ Count(f.trace, "IMPROVE") = 0
            /\ f.code = f.initial
            /\ \A x \in Range(f.exported) : x = f.initial
            /\ (f.pc = "done" => store[f.name] = f.initial)

C6_Witness ==
    /\ Len(stack) = 1 /\ stack[1].pc = "done"
    /\ iterations = MaxIters
    /\ stack[1].first = 90
    /\ stack[1].exported = << 1 >>

\* the phase sequences that are a prefix of
\* CONVERT, EVALUATE, (IMPROVE, EVALUATE)*, EXPORT
PhaseOrder(t) ==
    \A j \in 1..Len(t) :
        /\ (j = 1) <=> (t[j] = "CONVERT")
        /\ t[j] = "EVALUATE" => t[j - 1] \in {"CONVERT", "IMPROVE"}
        /\ t[j] = "IMPROVE" => t[j - 1] = "EVALUATE"
        /\ t[j] = "EXPORT" => (t[j - 1] = "EVALUATE" /\ j = Len(t))

\* C7: within one unit's conversion the phases occur in the order CONVERT,
\* EVALUATE, (IMPROVE, EVALUATE)*, EXPORT, in SPConverter.run and in the graph:
\* CONVERT once and first, after an IMPROVE pass comes an EVALUATE, before
\* EXPORT comes an EVALUATE, nothing after EXPORT.  (IMPROVE is one pass of
\* runV2's loop over the chunks, or one execution of the improve node.)
C7_PhaseOrder ==
    /\ PhaseOrder(gTrace)
    /\ \A f \in Frames : PhaseOrder(f.trace)

C7_Witness ==
    /\ node = "END"
    /\ gTrace = << "CONVERT", "EVALUATE", "IMPROVE", "EVALUATE",
                   "IMPROVE", "EVALUATE", "EXPORT" >>

\* C8: once the recursive conversion of an identifier P has finished, every
\* later lookup of P in the procedure store during that run is a hit, whatever
\* ConversionResult the child produced.
C8_NoMissAfterFinish == "miss_after_finish" \notin events

\* C9: recursive dependency resolution terminates for every dependency
\* relation, self-listing and mutually listing procedures included, because the
\* store lookup stops the recursion (so the chain of nested conversions never
\* grows until the interpreter's stack is exhausted).
C9_LookupStopsRecursion == "overflow_resolving" \notin events

\* C10: with recursion enabled, when prepare_dependencies has returned, the
\* resolved procedure text holds a block for every internal-procedure
\* identifier whose conversion is stored (with a non-empty result), those
\* converted during the resolution included.
C10_ResolvedTextComplete ==
    \A f \in Frames :
        (recursion /\ f.pc = "convert") =>
            \A j \in 1..Len(f.dependancies) :
                Truthy(find_from_json(store, Normalize(f.dependancies[j])))
                    => Normalize(f.dependancies[j]) \in Range(f.stored_procedures)

\* the activations below the running one wait inside prepare_dependencies and
\* have not started their own CONVERT phase
NestedWaiting(stk) ==
    \A j \in 1..(Len(stk) - 1) : stk[j].pc = "deps" /\ stk[j].trace = << >>

\* C11: a recursive child conversion runs to completion, through its own
\* export and its own procedure-store write, before the parent continues with
\* the next dependency or starts its own CONVERT phase; the parent never
\* converts while a child it started is unfinished.
C11_ChildCompletesFirst ==
    [][/\ NestedWaiting(stack) /\ NestedWaiting(stack')
       /\ Len(stack') < Len(stack) =>
             /\ Len(Top.trace) > 0 /\ Top.trace[Len(Top.trace)] = "EXPORT"
             /\ Top.exported = << Top.code >>
             /\ find_from_json(store, Top.name) = [found |-> TRUE, code |-> Top.code]
             /\ store' = store]_vars

C11_Witness ==
    /\ Len(stack) = 1 /\ raised = "none"
    /\ Name("q", TRUE) \in finished
    /\ Count(stack[1].trace, "CONVERT") = 1

\* the improve node was the last node to run
ImproveJustRan == Len(gTrace) > 0 /\ gTrace[Len(gTrace)] = "IMPROVE"

\* C12: for every list of N >= 0 improvement suggestions, spark_improve (batch
\* size 7) invokes the improvement model exactly ceil(N/7) times, the k-th call
\* (k from 0) receiving the slice [7k : 7(k+1)] of the suggestions in original
\* order, and the converted_files it returns is the output of the last call.
C12_BatchedCalls ==
    (node # "idle" /\ FullInitialState /\ ImproveJustRan) =>
        LET N == state["improvements"]
        IN  /\ Len(gCalls) * 7 >= N /\ (Len(gCalls) - 1) * 7 < N
            /\ \A b \in 1..Len(gCalls) :
                  LET size == IF N - 7 * (b - 1) < 7 THEN N - 7 * (b - 1) ELSE 7
                  IN  gCalls[b].improvements = [j \in 1..size |-> 7 * (b - 1) + j]
            /\ node = "evaluate"
            /\ Len(gCalls) > 0
            /\ state["converted_files"] =
                  [shape |-> "list", files |-> gCalls[Len(gCalls)].result]

\* the calls are chained: each call after the first got the result of the
\* call before it
GraphChained(calls) ==
    \A b \in 2..Len(calls) :
        calls[b].converted_code = [shape |-> "list", files |-> calls[b - 1].result]
RunChained(calls) ==
    \A b \in 2..Len(calls) : calls[b].code = calls[b - 1].result

C14_ScoreInRange ==
    /\ (node # "idle" /\ "score" \in DOMAIN state) =>
            (state["score"] >= 0 /\ state["score"] <= 100)
    /\ \A f \in Frames :
            Count(f.trace, "EVALUATE") > 0 /\ raised = "none" =>
                (f.score >= 0 /\ f.score <= 100)

\* C17: if the dependency-identification call to the language model fails, the
\* error propagates to the caller of run (what reaches the caller is the model
\* call's error), identification is not retried, and no conversion,
\* evaluation, export or procedure-store write happens for that attempt.
C17_IdentificationErrorPropagates ==
    "identification_failed" \in events =>
        /\ raised = "ModelError"
        /\ Top.pc = "prepare" /\ Top.trace = << >> /\ Top.exported = << >>
        /\ \A f \in Frames : f.trace = << >>

\* C19: save_code sets the procedure store's entry for the unit's name to the
\* unit's final result and leaves every other entry unchanged; when the store
\* file does not exist it creates it holding only that entry.  Under
\* sequential single-process use an entry written by one run is still present
\* after any later run for a different identifier.
C19_SaveCodeFrame ==
    [][IF Running /\ Top.pc = "export"
       THEN /\ storeFile'
            /\ DOMAIN store' = DOMAIN store \cup {Top.name}
            /\ store'[Top.name] = Top.code
            /\ \A n \in DOMAIN store \ {Top.name} : store'[n] = store[n]
            /\ ~storeFile => DOMAIN store' = {Top.name}
       ELSE savers = << >> => (store' = store /\ storeFile' = storeFile)]_vars

C19_Witness ==
    /\ Len(stack) = 1 /\ stack[1].pc = "done" /\ savers = << >>
    /\ Name("q", TRUE) \in finished
    /\ DOMAIN store = {Name("p", TRUE), Name("q", TRUE)}
    /\ store[Name("q", TRUE)] = 1 /\ store[Name("p", TRUE)] = 0

\* C20: the procedure store update is an unlocked whole-file
\* read-modify-write: when processes run save_code and their read and write
\* steps interleave, the last write-back wins (a readable store file holds what
\* the last writer read plus the last writer's entry), and the final store can
\* lack the entry written by the other process.
C20_LastWriteBackWins ==
    (written # << >> /\ storeText = "json") =>
        LET w == savers[written[Len(written)]]
        IN  /\ storeFile
            /\ DOMAIN store = DOMAIN w.read \cup {w.name}
            /\ store[w.name] = w.code
            /\ \A n \in DOMAIN w.read \ {w.name} : store[n] = w.read[n]

C20_Witness ==
    /\ \A p \in DOMAIN savers : savers[p].pc = "done"
    /\ written = << 1, 2 >>
    /\ storeText = "json"
    /\ savers[1].name # savers[2].name
    /\ savers[1].name \notin DOMAIN store

\* two strings are equal when the case of the letters is ignored
EqualIgnoringCase(str1, str2) ==
    /\ Len(str1) = Len(str2)
    /\ \A j \in 1..Len(str1) : str1[j].letter = str2[j].letter

\* the positions of the catalogue records whose name is the identifier with
\* its extension, ignoring case
Matches(e) ==
    {i \in 1..Len(catalogue.items) :
        EqualIgnoringCase(catalogue.items[i][KeyField(category)], WithJava(e))}
FirstMatch(e) == CHOOSE i \in Matches(e) : \A k \in Matches(e) : i <= k

NamedLookups == category \in {"entities", "functions", "triggers"}

RECURSIVE ExpectedBlocks(_)
ExpectedBlocks(j) ==
    IF j = 0 THEN << >>
    ELSE ExpectedBlocks(j - 1) \o
         (IF Matches(wanted[j]) = {} THEN << >>
          ELSE LET r == catalogue.items[FirstMatch(wanted[j])]
               IN  << [name |-> r[KeyField(category)], code |-> r[TextField(category)]] >>)

C21_SuffixedKeys ==
    /\ \A n \in DOMAIN store : n.sql
    /\ \A f \in Frames :
          /\ f.name.sql
          /\ \A j \in 1..Len(f.lookups) : f.lookups[j].sql
    /\ \A n1 \in DOMAIN store : \A n2 \in DOMAIN store : n1.base = n2.base => n1 = n2

C21_Witness ==
    /\ Len(stack) = 1 /\ stack[1].pc = "done"
    /\ ~TopName.sql /\ stack[1].name = Normalize(TopName)
    /\ stack[1].lookups = << Name("q", TRUE) >>
    /\ finished = {Name("q", TRUE)}
    /\ DOMAIN store = {Name("p", TRUE), Name("q", TRUE)}

\* C28: internal-procedure identifiers are resolved only in recursive mode:
\* a run with recursion disabled looks nothing up in the procedure store and
\* starts no child conversion, whatever the identification step reports; a
\* child conversion is started with its parent's recursion flag and iteration
\* budget.
C28_RecursiveModeOnly ==
    /\ \A f \in Frames :
          ~f.recursion =>
              /\ f.lookups = << >> /\ f.stored_procedures = << >>
              /\ f.pc # "deps"
    /\ \A j \in 2..Len(stack) :
          /\ stack[j - 1].recursion
          /\ stack[j].recursion = stack[j - 1].recursion
          /\ stack[j].iterations = stack[j - 1].iterations

C28_Witness ==
    /\ Len(stack) = 2 /\ stack[2].pc = "done"
    /\ stack[2].iterations = 1
    /\ Count(stack[2].trace, "IMPROVE") = 1

\* the run's initial conversion got a response that could not be parsed
Unparsed(f) == f.response = "unparsed"

C23_MissingSourceAborts ==
    \A f \in Frames :
        f.sp = "error" =>
            /\ f.trace = << >> /\ f.exported = << >>
            /\ f.pc # "done"

\* the positions of the characters of t that are not whitespace
NonBlank(t) == {j \in 1..Len(t) : t[j] # Blank}
\* t from its first to its last character that is not whitespace
Trimmed(t) ==
    IF NonBlank(t) = {} THEN << >>
    ELSE SubSeq(t, CHOOSE j \in NonBlank(t) : \A k \in NonBlank(t) : j <= k,
                   CHOOSE j \in NonBlank(t) : \A k \in NonBlank(t) : j >= k)
\* the argument names the target: it is the name once trimmed, in any case
Selects(tf, name) == ~tf.none /\ EqualIgnoringCase(Trimmed(tf.text), Str(name))

\* C24: _resolve_system_prompt is total and never raises: after trimming
\* whitespace and lower-casing, "flask" and "python/flask" select the Flask
\* template, "fastapi" and "python/fastapi" the FastAPI template, and every
\* other argument, None, the empty string and unrecognized names included,
\* selects the Java/Spring Boot template.
C24_TemplateSelection ==
    system_prompt # "unset" =>
        IF \/ Selects(target_framework, << "flask" >>)
           \/ Selects(target_framework, << "python", "/", "flask" >>)
        THEN system_prompt = SP_CONVERSION_SYS_PROMPT_FLASK
        ELSE IF \/ Selects(target_framework, << "fastapi" >>)
                \/ Selects(target_framework, << "python", "/", "fastapi" >>)
        THEN system_prompt = SP_CONVERSION_SYS_PROMPT_FASTAPI
        ELSE system_prompt = SP_CONVERSION_SYS_PROMPT

C24_Witness ==
    /\ ~target_framework.none
    /\ Len(target_framework.text) = 5
    /\ target_framework.text[1] = Blank /\ target_framework.text[5] = Blank
    /\ target_framework.text[2] = [letter |-> "python", upper |-> TRUE]
    /\ target_framework.text[4] = [letter |-> "fastapi", upper |-> TRUE]
    /\ system_prompt = SP_CONVERSION_SYS_PROMPT_FASTAPI

\* C25: in SPConverter.run the image build is invoked at most twice: a second
\* build happens only after the first build returned a non-zero exit code and
\* the auto-fix reported that it applied a fix, and there is never a third;
\* run_container is invoked at most once, and only when the last build
\* returned exit code 0.
C25_BoundedBuildRetry ==
    \A f \in Frames :
        /\ Len(f.builds) <= 2 /\ Len(f.fixes) <= 1 /\ Len(f.containers) <= 1
        /\ Len(f.builds) = 2 => (f.builds[1].rc # 0 /\ f.fixes = << TRUE >>)
        /\ Len(f.containers) = 1 => f.builds[Len(f.builds)].rc = 0
        /\ f.pc = "run_container" => f.builds[Len(f.builds)].rc = 0

C25_Witness ==
    /\ Len(stack) = 1 /\ stack[1].pc = "done"
    /\ Len(stack[1].builds) = 2
    /\ stack[1].builds[1].rc = 1 /\ stack[1].builds[2].rc = 1
    /\ stack[1].fixes = << TRUE >>
    /\ stack[1].containers = << >>

\* C26: when the container tool is not installed, build_image reports the
\* exit code 127 without raising, and run then returns normally, the rebuild
\* and the container run skipped; run_container likewise reports 127 with no
\* container id instead of raising.
C26_ToolNotFound ==
    \A f \in Frames :
        /\ (~docker.first.found /\ f.builds # << >>) =>
              /\ f.builds = << [rc |-> 127, out |-> "docker not found"] >>
              /\ f.pc \in {"autofix", "done"}
              /\ f.pc = "done" => f.fixes = << FALSE >>
              /\ f.containers = << >>
              /\ raised = "none"
        /\ (~docker.run.found /\ f.containers # << >>) =>
              /\ f.containers = << [rc |-> 127, id |-> FALSE] >>
              /\ f.pc = "done"
              /\ raised = "none"

C26_Witness ==
    /\ Len(stack) = 1 /\ stack[1].pc = "done"
    /\ ~docker.first.found
    /\ stack[1].builds = << [rc |-> 127, out |-> "docker not found"] >>
    /\ stack[1].containers = << >>

\* the run is past export_code and save_code
Packaging(f) == f.pc \in {"package", "build", "autofix", "run_container", "done"}

\* C27: in every SPConverter.run, export_code and the procedure-store write
\* are complete before the first image build starts, and a failing build or a
\* failing container run neither makes run raise nor changes the store entry
\* written for the unit.
C27_ExportBeforeBuild ==
    \A f \in Frames :
        (Packaging(f) \/ f.builds # << >>) =>
            /\ Len(f.exported) = 1
            /\ f.trace[Len(f.trace)] = "EXPORT"
            /\ storeFile
            /\ find_from_json(store, f.name) = [found |-> TRUE, code |-> f.exported[1]]
            /\ raised = "none"

C27_Witness ==
    /\ Len(stack) = 1 /\ stack[1].pc = "done"
    /\ Len(stack[1].builds) = 2 /\ stack[1].builds[2].rc = 0
    /\ stack[1].containers = << [rc |-> 125, id |-> FALSE] >>
    /\ Name("q", TRUE) \in finished
    /\ store[stack[1].name] = 1

\* C29: after the export phase of every run, the unit's output directory
\* holds the run's latest EvaluationResult as evaluation metadata and the
\* DependencySet identified in that same run as dependency metadata, also when
\* the directory already holds metadata files written by an earlier run of the
\* same unit.
C29_MetadataOfThisRun ==
    converter.pc = "exported" =>
        /\ outdir.evaluation = << converter.evaluation >>
        /\ outdir.dependancies = << converter.dependancies >>

\* C30: the initial conversion performed by SPConverter.run (runV1) selects
\* the Java/Spring Boot conversion template, the default target of the
\* converter.
C30_InitialTemplateJava ==
    \A f \in Frames :
        Count(f.trace, "CONVERT") > 0 => f.system_prompt = SP_CONVERSION_SYS_PROMPT

\* the counter, the budget, the score and the target as the router reads them
Iteration(st) == Get(st, "iteration", DefaultIteration)
MaxItersOf(st) == Get(st, "max_iters", DefaultMaxIters)

\* C31: in the PySpark graph the iteration counter starts at 0, every improve
\* step (an execution of the improve node that returns its update) increases
\* it by exactly 1 and no other step changes it; in every reachable state
\* 0 <= iteration <= max_iters, and the improve node is entered only with
\* score < target_score and iteration < max_iters.
C31_IterationCounter ==
    /\ [](/\ (node = "convert" => Iteration(state) = 0)
          /\ 0 <= Iteration(state) /\ Iteration(state) <= MaxItersOf(state)
          /\ node = "improve" =>
                /\ state["score"] < Get(state, "target_score", DefaultTarget)
                /\ Iteration(state) < MaxItersOf(state))
    /\ [][IF node = "improve" /\ node' # "raised"
          THEN Iteration(state') = Iteration(state) + 1
          ELSE Iteration(state') = Iteration(state)]_vars

C31_Witness ==
    /\ node = "END"
    /\ FullInitialState
    /\ Count(gTrace, "IMPROVE") = 2
    /\ state["iteration"] = 2 /\ state["max_iters"] = 2

\* C32: the converted_files value that reaches the export step is a list of
\* file records, whether the convert step alone or an improve step produced
\* it, and every file record of the final result is written under the output
\* directory: a graph run that is over has written the files of its final
\* converted_files.
C32_ExportedShape ==
    /\ (node = "export" => state["converted_files"].shape = "list")
    /\ ((GraphEnded /\ Count(gTrace, "EXPORT") > 0) =>
            gExported = << state["converted_files"].files >>)

\* the activations present before and after a step (a step pushes or pops at
\* most the last one)
Lasting == 1..(IF Len(stack) < Len(stack') THEN Len(stack) ELSE Len(stack'))

\* C33: in SPConverter.run the number of improve passes (runV2) never exceeds
\* the iteration budget, and once an evaluation has returned a score of at
\* least 90 the run makes no further improvement call and no further
\* evaluation call: the remaining loop iterations start no pass and leave the
\* result and the evaluation as they are.
C33_BudgetAndEarlyStop ==
    /\ [](\A f \in Frames : Count(f.trace, "IMPROVE") <= f.iterations)
    /\ [][\A j \in Lasting :
            (stack[j].score # -1 /\ stack[j].score >= 90) =>
               /\ Count(stack'[j].trace, "IMPROVE") = Count(stack[j].trace, "IMPROVE")
               /\ Count(stack'[j].trace, "EVALUATE") = Count(stack[j].trace, "EVALUATE")
               /\ stack'[j].calls = stack[j].calls
               /\ stack'[j].code = stack[j].code
               /\ stack'[j].score = stack[j].score
               /\ stack'[j].improvements = stack[j].improvements]_vars

C33_Witness ==
    /\ Len(stack) = 1 /\ stack[1].pc = "export"
    /\ stack[1].iterations = 2 /\ stack[1].i = 2
    /\ stack[1].first = 89 /\ stack[1].score = 90
    /\ stack[1].trace = << "CONVERT", "EVALUATE", "IMPROVE", "EVALUATE" >>

C35_FixChangesDockerfile ==
    /\ [][(Len(stack) > 0 /\ Len(stack') = Len(stack) /\ Top.pc = "autofix") =>
            LET b           == Top.name.base
                after       == stack'[Len(stack)]
                applied_fix == after.fixes[Len(after.fixes)]
                build_out   == Top.builds[Len(Top.builds)].out
            IN  /\ applied_fix => dockerfiles'[b] # dockerfiles[b]
                /\ (build_out # "copy failed" /\ dockerfiles[b] # "none") =>
                       (~applied_fix /\ dockerfiles'[b] = dockerfiles[b])]_vars
    /\ [](\A f \in Frames : Len(f.built) = 2 => f.built[2] # f.built[1])

\* the concatenation of the lists of a list
RECURSIVE Concat(_)
Concat(lists) ==
    IF lists = << >> THEN << >> ELSE Head(lists) \o Concat(Tail(lists))

\* C37: for every list of length N and chunk_size B >= 1, chunked yields
\* exactly ceil(N/B) chunks (the n with (n - 1) * B < N <= n * B) whose
\* concatenation in order is the input list, every chunk is non-empty and every
\* chunk but possibly the last has exactly B items; for B <= 0 it raises
\* ValueError and yields nothing.
C37_Chunked ==
    (call.fn = "chunked" /\ returned.raised # "unset") =>
        LET N == Len(call.items)
            B == call.chunk_size
            c == returned.yielded
        IN  IF B >= 1
            THEN /\ returned.raised = "none"
                 /\ (Len(c) - 1) * B < N /\ N <= Len(c) * B
                 /\ Concat(c) = call.items
                 /\ \A j \in 1..Len(c) :
                       /\ Len(c[j]) >= 1
                       /\ j < Len(c) => Len(c[j]) = B
            ELSE /\ returned.raised = "ValueError"
                 /\ c = << >>

C37_Witness ==
    /\ call.fn = "chunked" /\ returned.raised # "unset"
    /\ call.items = << "x", "y", "y", "x", "y" >> /\ call.chunk_size = 2
    /\ returned.yielded = << << "x", "y" >>, << "y", "x" >>, << "y" >> >>

\* JSON objects as texts, with the mapping each one denotes
ObjectForms ==
    LET atoms == {[text |-> << "s" >>, value |-> String],
                  [text |-> << "a" >>, value |-> List],
                  [text |-> << "{", "}" >>, value |-> EmptyDict]}
        inside(vs) == {[text  |-> << "{", "k" >> \o v.text \o << "}" >>,
                        value |-> Dict(<< v.value >>)] : v \in vs}
    IN  {[text |-> << "{", "}" >>, value |-> EmptyDict]}
        \cup inside(atoms) \cup inside(inside(atoms))
\* an object inside a markdown code fence, with or without the language tag
Fenced(text) ==
    {<< "fence" >> \o tag \o text \o << "fence" >> : tag \in {<< >>, << "json" >>}}
\* the text, white space aside, is the object, or holds it inside a fence
Gives(text, object) ==
    LET units == SelectSeq(text, NotSpace)
    IN  \/ units = object
        \/ \E i \in 1..Len(units), j \in 1..Len(units) :
              SubSeq(units, i, j) \in Fenced(object)

\* C36: json_to_dict never raises and always returns a mapping: a dict is
\* returned unchanged, a JSON object given bare or inside a markdown code
\* fence is returned parsed, and every other input (invalid JSON, or valid
\* JSON that is not an object, such as a list or a string) gives the empty
\* mapping.
C36_AlwaysMapping ==
    (call.fn = "json_to_dict" /\ returned.raised # "unset") =>
        LET json_data == call.json_data
            objects   == IF json_data.type # "str" THEN {}
                         ELSE {o \in ObjectForms : Gives(json_data.text, o.text)}
        IN  /\ returned.raised = "none"
            /\ returned.value.type = "dict"
            /\ IF json_data.type = "dict" THEN returned.value = json_data
               ELSE IF objects # {} THEN \E o \in objects : returned.value = o.value
               ELSE returned.value = EmptyDict

====
